---- MODULE Spec2Model ----
(***************************************************************************)
(* A model of instructor/function_calls.py: the mode-keyed response parser *)
(* (OpenAISchema.from_response and its parse_* helpers), the asynchronous  *)
(* validation orchestrator (get_model_coroutines / model_async_validate)   *)
(* and the schema deriver (openai_schema_helper).                          *)
(*                                                                         *)
(* Three specifications share the variables below:                         *)
(*   SpecParse    - one from_response call on a bounded (mode, completion) *)
(*   SpecSchema   - one openai_schema_helper call on a bounded type tree   *)
(*   Spec         - repeated model_async_validate calls on a bounded       *)
(*                  instance graph, the validator bodies interleaving      *)
(***************************************************************************)
EXTENDS Naturals, Sequences, FiniteSets, TLC

VARIABLES
    mode,        \* from_response: the mode argument
    completion,  \* from_response: the raw response (a record, see Completions)
    strict,      \* from_response: the strict argument ("True", "False", "None")
    parsed,      \* from_response: Pending, or the outcome of the call
    ty,          \* openai_schema_helper: the type given
    derived,     \* openai_schema_helper: NotDerived, or the outcome of the call
    inst,        \* model_async_validate: the instance graph (see Graphs)
    context,     \* model_async_validate: the validation_context argument
    call,        \* number of the model_async_validate call in progress
    pc,          \* where that call is: "start", "gather", "returned", "raised"
    coros,       \* the coroutines discovery collected, in gather's order
    task,        \* task[i]: "created", "running", "done" or "failed"
    slot,        \* slot[i]: the result gather holds for coroutine i
    runs,        \* runs[i]: how often the validator body of coroutine i started
    returned     \* returned[c]: the outcome of call c

vars == <<mode, completion, strict, parsed, ty, derived,
          inst, context, call, pc, coros, task, slot, runs, returned>>

parseVars == <<mode, completion, strict, parsed>>

schemaVars == <<ty, derived>>

validateVars == <<inst, context, call, pc, coros, task, slot, runs, returned>>

-----------------------------------------------------------------------------
(* Bounds *)

\* the largest number of tool invocations a completion carries
MaxCalls == 2

\* the deepest nesting of a type handed to openai_schema_helper
MaxDepth == 2

\* the number of instances in the graph handed to model_async_validate
MaxNodes == 3

\* the largest number of validator coroutines one graph gives rise to
MaxTasks == 4

\* the number of model_async_validate calls made on the same instance
Calls == 2

-----------------------------------------------------------------------------
(***************************************************************************)
(* ResponseParser: from_response and the parse_* class methods             *)
(***************************************************************************)

\* The modes from_response dispatches on, by the branch that handles them.
ProviderModes == {"ANTHROPIC_TOOLS", "ANTHROPIC_JSON", "VERTEXAI_TOOLS",
                  "VERTEXAI_JSON", "COHERE_TOOLS", "GEMINI_JSON",
                  "COHERE_JSON_SCHEMA"}

ToolsModes == {"TOOLS", "MISTRAL_TOOLS"}

JsonModes == {"JSON", "JSON_SCHEMA", "MD_JSON"}

DispatchedModes == ProviderModes \cup {"FUNCTIONS"} \cup ToolsModes \cup JsonModes

\* A Mode member from_response has no branch for.
UndispatchedModes == {"PARALLEL_TOOLS"}

Modes == DispatchedModes \cup UndispatchedModes

\* The shapes of raw response the parse_* methods read:
\*   openai        completion.choices[0].finish_reason / .message
\*   message       an anthropic.types.Message (.stop_reason, .content)
\*   other_message an object with .stop_reason and .content that is not a
\*                 Message (the isinstance test of parse_anthropic_tools)
\*   gemini        .text (may raise ValueError), .result.candidates[0].finish_reason
\*   vertexai      .candidates[0].content.parts[0].function_call.args, .text
\*   cohere        .text
Shapes == {"openai", "message", "other_message", "gemini", "vertexai", "cohere"}

\* The values of the finish/stop reason each shape carries; the second of
\* each pair is the provider's "cut off by the length limit" value.
FinishReasons(shape) ==
    CASE shape = "openai" -> {"stop", "length"}
      [] shape \in {"message", "other_message"} -> {"end_turn", "max_tokens"}
      [] OTHER -> {"STOP", "MAX_TOKENS"}

Truncated(c) == c.finish \in {"length", "max_tokens", "MAX_TOKENS"}

\* The payload carried by the response, by how the validation routines take it:
\*   valid      well-formed JSON of the target's exact types
\*   coercible  well-formed JSON that fits the target only after coercion
\*   ctrl       JSON of the target with a raw control character in a string
\*   invalid    does not fit the target at all
Payloads == {"valid", "coercible", "ctrl", "invalid"}

Stricts == {"True", "False", "None"}

\* The shapes a caller hands over with each mode (any shape with a mode
\* from_response does not know).
ShapesOf(m) ==
    CASE m \in {"FUNCTIONS"} \cup ToolsModes \cup JsonModes -> {"openai"}
      [] m = "ANTHROPIC_TOOLS" -> {"message", "other_message"}
      [] m = "ANTHROPIC_JSON" -> {"message"}
      [] m = "GEMINI_JSON" -> {"gemini"}
      [] m \in {"VERTEXAI_TOOLS", "VERTEXAI_JSON"} -> {"vertexai"}
      [] m \in {"COHERE_TOOLS", "COHERE_JSON_SCHEMA"} -> {"cohere"}
      [] OTHER -> Shapes

\* A raw response:
\*   ncalls   number of tool invocations (tool_calls / tool_use blocks /
\*            function_call present iff > 0)
\*   nameOk   the first invocation's name equals cls.openai_schema["name"]
\*   payload  the first invocation's arguments, or the message text
\*   hasText  reading .text succeeds (Gemini raises ValueError otherwise)
Completions(m) ==
    { [shape |-> s, finish |-> f, ncalls |-> n, nameOk |-> k,
       payload |-> p, hasText |-> t] :
        s \in ShapesOf(m), f \in {"stop", "length", "end_turn", "max_tokens",
                                  "STOP", "MAX_TOKENS"},
        n \in 0..MaxCalls, k \in BOOLEAN, p \in Payloads, t \in BOOLEAN }

WellFormed(c) ==
    /\ c.finish \in FinishReasons(c.shape)
    /\ (c.shape # "gemini") => c.hasText
    /\ (c.shape \in {"gemini", "cohere"}) => (c.ncalls = 0 /\ c.nameOk)
    /\ (c.ncalls = 0) => c.nameOk

\* Outcomes of a call.  raw: the outcome carries the raw response
\* (IncompleteOutputException.last_completion, obj.raw_response);
\* read: the payload was taken out of the response and handed to the
\* validation routine before the call ended; names: the mode an error names.
Pending ==
    [tag |-> "pending", err |-> "none", raw |-> FALSE, read |-> FALSE, names |-> "none"]

Raise(e, raw, read) ==
    [tag |-> "error", err |-> e, raw |-> raw, read |-> read, names |-> "none"]

RaiseNaming(e, m) ==
    [tag |-> "error", err |-> e, raw |-> FALSE, read |-> FALSE, names |-> m]

Instance(raw) ==
    [tag |-> "instance", err |-> "none", raw |-> raw, read |-> TRUE, names |-> "none"]

\* json.loads(text, strict=b): a raw control character inside a string is
\* accepted only with strict=False.
json_loads(p, b) == (p = "ctrl") => ~b

\* cls.model_validate(obj, strict=s) on an already decoded object: a string
\* holding a control character is an ordinary string; coercion is refused
\* only when s is True (None falls back to the model's lenient default).
model_validate(p, s) ==
    CASE p \in {"valid", "ctrl"} -> TRUE
      [] p = "coercible" -> s # "True"
      [] OTHER -> FALSE

\* cls.model_validate_json(text, strict=s): pydantic's own JSON parser rejects
\* a raw control character in a string whatever s is.
model_validate_json(p, s) == p # "ctrl" /\ model_validate(p, s)

ValidatedJson(p, s, raw) ==
    IF model_validate_json(p, s) THEN Instance(raw)
    ELSE Raise("ValidationError", FALSE, TRUE)

\* The "if strict: ... else: ..." tail of parse_anthropic_json / parse_gemini_json
StrictOrLenient(p, s) ==
    IF s = "True"
    THEN ValidatedJson(p, "True", FALSE)
    ELSE IF json_loads(p, FALSE) /\ model_validate(p, "False") THEN Instance(FALSE)
         ELSE Raise("ValidationError", FALSE, TRUE)

\* json.dumps of a mapping: a control character inside a string value is
\* written as an escape sequence, so the text holds no raw control character
\* and reads as an ordinary string; everything else is written as it is.
json_dumps(p) == IF p = "ctrl" THEN "valid" ELSE p

\* The modes whose payload is a mapping (tool input, function-call arguments)
\* and not a text written by the provider.
MappingPayloadModes == {"ANTHROPIC_TOOLS", "VERTEXAI_TOOLS"}

\* The shapes of response that have a text attribute.
HasTextAttribute(c) == c.shape \in {"gemini", "vertexai", "cohere"}

\* hasattr(completion, "text") is False without the attribute; an attribute
\* whose read raises ValueError makes hasattr raise it (hasattr swallows
\* AttributeError only).
parse_cohere_json_schema(c, s) ==
    IF ~HasTextAttribute(c) THEN Raise("AssertionError", FALSE, FALSE)
    ELSE IF ~c.hasText THEN Raise("ValueError", FALSE, FALSE)
    ELSE ValidatedJson(c.payload, s, FALSE)

parse_anthropic_tools(c, s) ==
    IF c.shape = "message" /\ c.finish = "max_tokens"
    THEN Raise("IncompleteOutputException", TRUE, FALSE)
    ELSE IF c.shape \notin {"message", "other_message"}
    THEN Raise("AttributeError", FALSE, FALSE)
    ELSE IF c.ncalls # 1
    THEN Raise("ValidationError", FALSE, TRUE)
    ELSE ValidatedJson(json_dumps(c.payload), s, FALSE)

parse_anthropic_json(c, s) ==
    IF c.shape # "message" THEN Raise("AssertionError", FALSE, FALSE)
    ELSE IF c.finish = "max_tokens"
    THEN Raise("IncompleteOutputException", TRUE, FALSE)
    ELSE StrictOrLenient(c.payload, s)

parse_gemini_json(c, s) ==
    IF ~HasTextAttribute(c) THEN Raise("AttributeError", FALSE, FALSE)
    ELSE IF ~c.hasText THEN Raise("ValueError", FALSE, FALSE)
    ELSE StrictOrLenient(c.payload, s)

parse_vertexai_tools(c, s) ==
    IF c.shape # "vertexai" THEN Raise("AttributeError", FALSE, FALSE)
    ELSE IF c.ncalls = 0 THEN Raise("IndexError", FALSE, FALSE)
    ELSE IF model_validate(c.payload, "False") THEN Instance(TRUE)
    ELSE Raise("ValidationError", FALSE, TRUE)

parse_vertexai_json(c, s) ==
    IF ~HasTextAttribute(c) THEN Raise("AttributeError", FALSE, FALSE)
    ELSE IF ~c.hasText THEN Raise("ValueError", FALSE, FALSE)
    ELSE IF ~json_loads(c.payload, TRUE) THEN Raise("JSONDecodeError", FALSE, TRUE)
    ELSE IF model_validate(c.payload, s) THEN Instance(TRUE)
    ELSE Raise("ValidationError", FALSE, TRUE)

parse_cohere_tools(c, s) ==
    IF ~HasTextAttribute(c) THEN Raise("AttributeError", FALSE, FALSE)
    ELSE IF ~c.hasText THEN Raise("ValueError", FALSE, FALSE)
    ELSE ValidatedJson(c.payload, s, TRUE)

parse_functions(c, s) ==
    IF c.ncalls = 0 THEN Raise("AttributeError", FALSE, FALSE)
    ELSE IF ~c.nameOk THEN Raise("AssertionError", FALSE, FALSE)
    ELSE ValidatedJson(c.payload, s, TRUE)

\* parse_tools without its first assertion: message.tool_calls[0] is taken
\* whatever the number of invocations is.
parse_tools_first_call(c, s) ==
    IF c.ncalls = 0 THEN Raise("TypeError", FALSE, FALSE)
    ELSE IF ~c.nameOk THEN Raise("AssertionError", FALSE, FALSE)
    ELSE ValidatedJson(c.payload, s, TRUE)

parse_tools(c, s) ==
    IF c.ncalls # 1 THEN Raise("AssertionError", FALSE, FALSE)
    ELSE IF ~c.nameOk THEN Raise("AssertionError", FALSE, FALSE)
    ELSE ValidatedJson(c.payload, s, TRUE)

parse_json(c, s) == ValidatedJson(c.payload, s, TRUE)

from_response(c, s, m) ==
    CASE m = "ANTHROPIC_TOOLS" -> parse_anthropic_tools(c, s)
      [] m = "ANTHROPIC_JSON" -> parse_anthropic_json(c, s)
      [] m = "VERTEXAI_TOOLS" -> parse_vertexai_tools(c, s)
      [] m = "VERTEXAI_JSON" -> parse_vertexai_json(c, s)
      [] m = "COHERE_TOOLS" -> parse_cohere_tools(c, s)
      [] m = "GEMINI_JSON" -> parse_gemini_json(c, s)
      [] m = "COHERE_JSON_SCHEMA" -> parse_cohere_json_schema(c, s)
      [] OTHER ->
            IF c.shape # "openai" THEN Raise("AttributeError", FALSE, FALSE)
            ELSE IF c.finish = "length"
            THEN Raise("IncompleteOutputException", TRUE, FALSE)
            ELSE IF m = "FUNCTIONS" THEN parse_functions(c, s)
            ELSE IF m \in ToolsModes THEN parse_tools(c, s)
            ELSE IF m \in JsonModes THEN parse_json(c, s)
            ELSE RaiseNaming("ValueError", m)


\* The modes for which the source reads a finish/stop reason off the raw
\* response: choices[0].finish_reason (every mode that is not handed to a
\* provider's parser, the modes without a branch of their own included),
\* stop_reason (Anthropic), result.candidates[0].finish_reason (Gemini).
FinishReasonModes ==
    {"FUNCTIONS"} \cup ToolsModes \cup JsonModes \cup UndispatchedModes
        \cup {"ANTHROPIC_TOOLS", "ANTHROPIC_JSON", "GEMINI_JSON"}

\* The modes whose response is an array of tool invocations of which exactly
\* one is accepted.
ToolCallArrayModes == ToolsModes \cup {"ANTHROPIC_TOOLS"}

-----------------------------------------------------------------------------
(***************************************************************************)
(* SchemaDeriver: openai_schema_helper                                     *)
(***************************************************************************)

\* A type is a record [kind, args, capable].  The kinds, by what the tests of
\* openai_schema_helper see (CPython 3.11):
\*   list     list[T]: get_origin is list
\*   literal  Literal[...]: get_origin is Literal
\*   union    Union[T1, T2]: get_origin is Union
\*   prim     a subclass of str, int, bool, float, bytes or Enum
\*   model    a subclass of pydantic.BaseModel; capable once it also derives
\*            from OpenAISchema
\*   none     NoneType
\*   class    any other plain class (dict, set, datetime, a user class):
\*            get_origin is None and no issubclass test holds
\*   alias    a parameterised builtin (set[int], dict[str, int]): get_origin
\*            is the builtin, issubclass answers False
\*   typing   a typing alias (typing.Set[int], typing.Dict[str, int]):
\*            get_origin is the builtin, issubclass raises TypeError
Leaf(k) == [kind |-> k, args |-> <<>>, capable |-> FALSE]

Node(k, as) == [kind |-> k, args |-> as, capable |-> FALSE]

LeafKinds == {"literal", "prim", "none", "class", "alias", "typing"}

SupportedKinds == {"list", "literal", "union", "prim", "model"}

RECURSIVE Types(_)
Types(d) ==
    IF d = 0 THEN {Leaf(k) : k \in LeafKinds}
    ELSE LET sub == Types(d - 1)
             side == {Leaf("prim"), Leaf("none")}
         IN  {Leaf(k) : k \in LeafKinds}
                \cup {Node("list", <<t>>) : t \in sub}
                \cup {Node("union", <<t, u>>) : t \in sub, u \in side}
                \cup {Node("union", <<u, t>>) : t \in sub, u \in side}
                \cup {Node("model", <<t>>) : t \in sub}
                \cup {Node("model", <<Leaf("prim"), t>>) : t \in sub}
                \cup {Node("model", <<t, Leaf("prim")>>) : t \in sub}

Returned(t) == [tag |-> "type", type |-> t, err |-> "none", names |-> Leaf("none")]

Failed(e, t) == [tag |-> "error", type |-> Leaf("none"), err |-> e, names |-> t]

NotDerived == [tag |-> "pending", type |-> Leaf("none"), err |-> "none", names |-> Leaf("none")]

\* The first failure among the outcomes rs (the recursion raises at the first
\* argument or field that fails), or the outcomes' types.
FirstFailure(rs) ==
    LET bad == {i \in 1..Len(rs) : rs[i].tag = "error"}
    IN  rs[CHOOSE i \in bad : \A j \in bad : i <= j]

\* What is left once no shape test has matched: "if not origin: return cls",
\* then the raise.
PlainOrUnsupported(t) ==
    IF t.kind \in {"none", "class"} THEN Returned(t)
    ELSE Failed("ValueError", t)

RECURSIVE openai_schema_helper(_)
openai_schema_helper(t) ==
    LET rs == [i \in 1..Len(t.args) |-> openai_schema_helper(t.args[i])]
        ok == \A i \in 1..Len(rs) : rs[i].tag = "type"
        ts == [i \in 1..Len(rs) |-> rs[i].type]
    IN  CASE t.kind = "list" ->
                IF ok THEN Returned([t EXCEPT !.args = ts]) ELSE FirstFailure(rs)
          [] t.kind = "literal" -> Returned(t)
          [] t.kind = "union" ->
                IF ok THEN Returned([t EXCEPT !.args = ts]) ELSE FirstFailure(rs)
          [] t.kind = "typing" -> Failed("TypeError", t)
          [] t.kind = "prim" -> Returned(t)
          [] t.kind = "model" ->
                IF ok THEN Returned([t EXCEPT !.args = ts, !.capable = TRUE])
                ELSE FirstFailure(rs)
          [] OTHER -> PlainOrUnsupported(t)

\* The types (t itself or one nested in it) whose shape is none of ordered
\* collection, literal, union, primitive/enum leaf or structured type; a
\* union's None alternative (Optional) is the one plain class that is meant
\* to pass.
RECURSIVE Unsupported(_)
Unsupported(t) ==
    (IF t.kind \in SupportedKinds \cup {"none"} THEN {} ELSE {t})
        \cup UNION {Unsupported(t.args[i]) : i \in 1..Len(t.args)}

-----------------------------------------------------------------------------
(***************************************************************************)
(* ValidationOrchestrator: get_model_coroutines and model_async_validate   *)
(***************************************************************************)

\* An instance graph is a sequence of instances; instance 1 is the one
\* model_async_validate is called on.  Each instance is a record
\*   parent  the instance holding it (0 for the first)
\*   attr    the attribute of the parent that holds it: "child" holds one
\*           nested instance, "items" holds a list of them
\*   cls     its class, which fixes its async validators (see Members)
\*   x       the value of its field x
\*   y       the value of its field y, "absent" when the class has no such field
\* The attributes of an instance come in the order x, y, child, items.
AttrNames == <<"child", "items">>

IsCollection(a) == a = "items"

\* The async validators a class carries, in the order dir(cls) lists them.
\* scope "field": the attribute holds ASYNC_VALIDATOR_KEY, a tuple of
\* (fields, function, requires_validation_context); scope "model": it holds
\* ASYNC_MODEL_VALIDATOR_KEY, a tuple of (function, requires_validation_context).
Members(cls) ==
    CASE cls = "Field" ->
            << [scope |-> "field", fields |-> <<"x">>, ctx |-> TRUE] >>
      [] cls = "Both" ->
            << [scope |-> "model", fields |-> <<>>, ctx |-> TRUE],
               [scope |-> "field", fields |-> <<"x", "y">>, ctx |-> FALSE] >>
      [] OTHER -> <<>>

\* The instances a graph is built from: a class and the data of its fields.
NodeKinds ==
    { [cls |-> "Plain", x |-> "good", y |-> "absent"],
      [cls |-> "Field", x |-> "bad", y |-> "absent"],
      [cls |-> "Field", x |-> "stall", y |-> "absent"],
      [cls |-> "Field", x |-> "cancel", y |-> "absent"],
      [cls |-> "Both", x |-> "good", y |-> "absent"],
      [cls |-> "Both", x |-> "good", y |-> "bad"] }

\* An instance whose validators do not simply pass or raise an Exception.
Special(k) == k.x \in {"stall", "cancel"} \/ (k.cls = "Both" /\ k.y = "absent")

Contexts == {"lenient", "strict"}

\* The user's validator bodies, as pure functions of what they are given: the
\* value (a field's value, or the instance for a model validator) and the
\* context (the string "None" when the validator takes none).
\*   ok     completes without raising
\*   raise  raises an Exception with the text ErrorText
\*   base   raises a BaseException that is no Exception (asyncio.CancelledError)
\*   hang   never completes
Body(v, c) ==
    CASE v = "bad" -> "raise"
      [] v = "stall" -> "hang"
      [] v = "cancel" -> "base"
      [] OTHER -> IF c = "strict" THEN "raise" ELSE "ok"

ErrorText(v, c) == IF v = "bad" THEN "bad value" ELSE "refused by context"

Children(g, n) == {k \in DOMAIN g : g[k].parent = n}

\* The elements of a set of numbers in ascending order.
RECURSIVE Ascending(_)
Ascending(S) ==
    IF S = {} THEN <<>>
    ELSE LET least == CHOOSE k \in S : \A j \in S : k <= j
         IN  <<least>> \o Ascending(S \ {least})

RECURSIVE Flatten(_)
Flatten(ss) == IF ss = <<>> THEN <<>> ELSE Head(ss) \o Flatten(Tail(ss))

\* values = dict(self): the fields of the instance.
Keys(g, n) ==
    {"x"} \cup (IF g[n].y = "absent" THEN {} ELSE {"y"})
          \cup {g[k].attr : k \in Children(g, n)}

FieldValue(g, n, f) == IF f = "y" THEN g[n].y ELSE g[n].x

\* The walk over self.__dict__.items() without its second test: only
\* attributes holding a single nested instance are descended into.
NestedInstances_no_collections(g, n) ==
    Ascending({k \in Children(g, n) : ~IsCollection(g[k].attr)})

\* The nested instances the walk over self.__dict__.items() descends into, in
\* its order: attribute by attribute, the items of a collection in sequence.
NestedInstances(g, n) ==
    Flatten([a \in DOMAIN AttrNames |->
                Ascending({k \in Children(g, n) : g[k].attr = AttrNames[a]})])

IsFieldScoped(v) == v.scope = "field"

IsModelScoped(v) == v.scope = "model"

get_async_validators(cls) == SelectSeq(Members(cls), IsFieldScoped)

get_async_model_validators(cls) == SelectSeq(Members(cls), IsModelScoped)

\* "prefix_path" and the text of the ValueError a failed validator turns into.
RECURSIVE Join(_)
Join(path) ==
    IF Len(path) = 0 THEN ""
    ELSE IF Len(path) = 1 THEN path[1]
    ELSE path[1] \o "." \o Join(Tail(path))

FailureText(e, prefix) ==
    "Exception of " \o e \o " encountered"
        \o (IF prefix # <<>> THEN " at " \o Join(prefix) ELSE "")

\* AsyncValidationContext(context=validation_context) if
\* requires_validation_context else None
ContextArg(v, c) == IF v.ctx THEN c ELSE "None"

\* A coroutine object: the validator it will run (its instance, its scope and,
\* for a field validator, the field), what it will be called with, and the
\* prefix it reports.
Coroutine(n, v, f, value, c, prefix) ==
    [node |-> n, scope |-> v.scope, field |-> f,
     value |-> value, ctx |-> ContextArg(v, c), prefix |-> prefix]

\* The orchestrator never raising on a field the instance lacks.
InvalidField_never(f, values) == FALSE

\* "if field not in values"
InvalidField(f, values) == f \notin values

\* The path handed down with the enclosing prefix forgotten.
ChildPrefix_reset(prefix, attribute_name) == <<attribute_name>>

\* "prefix + [attribute_name]", for fields and for nested instances alike
ChildPrefix(prefix, attribute_name) == prefix \o <<attribute_name>>

\* The coroutines one validator gives rise to, or the ValueError of line 182.
ValidatorCoroutines(g, n, v, c, prefix) ==
    IF IsModelScoped(v) /\ ~IsFieldScoped(v)
    THEN [err |-> FALSE,
          coros |-> << Coroutine(n, v, "self", g[n].x, c, prefix) >>]
    ELSE IF \E i \in DOMAIN v.fields : InvalidField(v.fields[i], Keys(g, n))
    THEN [err |-> TRUE, coros |-> <<>>]
    ELSE [err |-> FALSE,
          coros |-> [i \in DOMAIN v.fields |->
                        Coroutine(n, v, v.fields[i],
                                  FieldValue(g, n, v.fields[i]), c,
                                  ChildPrefix(prefix, v.fields[i]))]]

RECURSIVE get_model_coroutines(_, _, _, _)
get_model_coroutines(g, n, c, prefix) ==
    LET vs == get_async_validators(g[n].cls) \o get_async_model_validators(g[n].cls)
        own == [i \in DOMAIN vs |-> ValidatorCoroutines(g, n, vs[i], c, prefix)]
        kids == NestedInstances(g, n)
        sub == [k \in DOMAIN kids |->
                    get_model_coroutines(g, kids[k], c,
                                         ChildPrefix(prefix, g[kids[k]].attr))]
        all == own \o sub
    IN  IF \E i \in DOMAIN all : all[i].err
        THEN [err |-> TRUE, coros |-> <<>>]
        ELSE [err |-> FALSE, coros |-> Flatten([i \in DOMAIN all |-> all[i].coros])]

\* execute_field_validator without its "except Exception": the Exception of
\* the body leaves the coroutine.
execute_field_validator_uncaught(co) ==
    LET outcome == Body(co.value, co.ctx)
    IN  CASE outcome = "ok" -> [status |-> "returned", value |-> "None"]
          [] outcome = "raise" -> [status |-> "raised", value |-> "Exception"]
          [] OTHER -> [status |-> "raised", value |-> "BaseException"]

\* execute_field_validator once the body "await func(self, value[, context])"
\* has ended: None, the ValueError built from the Exception it caught, or the
\* BaseException that "except Exception" lets through.
execute_field_validator(co) ==
    LET outcome == Body(co.value, co.ctx)
    IN  CASE outcome = "ok" -> [status |-> "returned", value |-> "None"]
          [] outcome = "raise" ->
                [status |-> "returned",
                 value |-> FailureText(ErrorText(co.value, co.ctx), co.prefix)]
          [] OTHER -> [status |-> "raised", value |-> "BaseException"]

\* execute_model_validator once the body "await func(self[, context])" has ended.
execute_model_validator(co) ==
    LET outcome == Body(co.value, co.ctx)
    IN  CASE outcome = "ok" -> [status |-> "returned", value |-> "None"]
          [] outcome = "raise" ->
                [status |-> "returned",
                 value |-> FailureText(ErrorText(co.value, co.ctx), co.prefix)]
          [] OTHER -> [status |-> "raised", value |-> "BaseException"]

\* Results kept in the order the coroutines complete.
StoreResult_as_completed(s, i, v) ==
    LET free == {k \in DOMAIN s : s[k] = "NoValue"}
    IN  [s EXCEPT ![CHOOSE k \in free : \A j \in free : k <= j] = v]

\* asyncio.gather keeps each result at the position of its coroutine.
StoreResult(s, i, v) == [s EXCEPT ![i] = v]

\* "[item for item in ... if item]": None is dropped, a ValueError is kept.
Truthy(v) == v # "None"

Failures(s) == SelectSeq(s, Truthy)

\* Awaiting the coroutines one after the other.
CanStart_sequential(i) ==
    /\ pc \in {"gather", "raised"}
    /\ i \in DOMAIN task
    /\ task[i] = "created"
    /\ \A j \in 1..(i - 1) : task[j] \in {"done", "failed"}

\* gather wraps every coroutine in a task at once; the event loop gives the
\* tasks their first step in that order, none waiting for another to end.
CanStart(i) ==
    /\ pc \in {"gather", "raised"}
    /\ i \in DOMAIN task
    /\ task[i] = "created"
    /\ \A j \in 1..(i - 1) : task[j] # "created"

NoCall == [tag |-> "pending", items |-> <<>>, err |-> "none"]

ReturnedList(items) == [tag |-> "list", items |-> items, err |-> "none"]

RaisedError(e) == [tag |-> "raised", items |-> <<>>, err |-> e]

-----------------------------------------------------------------------------
(* The parser's specification: one from_response call. *)

IdleParse ==
    /\ mode = "TOOLS"
    /\ completion = [shape |-> "openai", finish |-> "stop", ncalls |-> 1,
                     nameOk |-> TRUE, payload |-> "valid", hasText |-> TRUE]
    /\ strict = "None"
    /\ parsed = Pending

IdleSchema ==
    /\ ty = Leaf("prim")
    /\ derived = NotDerived

IdleValidate ==
    /\ inst = <<>>
    /\ context = "lenient"
    /\ call = 0
    /\ pc = "idle"
    /\ coros = <<>>
    /\ task = <<>>
    /\ slot = <<>>
    /\ runs = <<>>
    /\ returned = <<>>

InitParse ==
    /\ mode \in Modes
    /\ completion \in {c \in Completions(mode) : WellFormed(c)}
    /\ strict \in Stricts
    /\ parsed = Pending
    /\ IdleSchema
    /\ IdleValidate

FromResponse ==
    /\ parsed.tag = "pending"
    /\ parsed' = from_response(completion, strict, mode)
    /\ UNCHANGED <<mode, completion, strict, schemaVars, validateVars>>

NextParse == FromResponse

SpecParse == InitParse /\ [][NextParse]_vars

-----------------------------------------------------------------------------
(* Claims about the parser *)

\* C1 (as stated): for every mode whose raw response exposes a finish/stop
\* reason, a response cut off by the length limit makes from_response fail
\* with IncompleteOutputException carrying the raw response, before the
\* payload is extracted or validated.
C1_TruncationAlwaysSignalled ==
    (parsed.tag # "pending" /\ mode \in FinishReasonModes /\ Truncated(completion))
        => /\ parsed.tag = "error"
           /\ parsed.err = "IncompleteOutputException"
           /\ parsed.raw
           /\ ~parsed.read

\* C2 (as stated): in every tool-call-array mode a response with zero or
\* with two or more tool invocations fails with an AssertionError.
C2_NotOneCallIsAssertionError ==
    (parsed.tag # "pending" /\ mode \in ToolCallArrayModes /\ completion.ncalls # 1)
        => (parsed.tag = "error" /\ parsed.err = "AssertionError")

\* C2 (amended): with zero or with two or more tool invocations, whatever
\* their names and payloads, from_response fails: in TOOLS and MISTRAL_TOOLS
\* with AssertionError unless finish_reason is "length" (then
\* IncompleteOutputException); in ANTHROPIC_TOOLS with pydantic's
\* ValidationError unless the response is a Message whose stop_reason is
\* "max_tokens" (then IncompleteOutputException).
C2_NotOneCallFails ==
    (parsed.tag # "pending" /\ mode \in ToolCallArrayModes /\ completion.ncalls # 1)
        => /\ parsed.tag = "error"
           /\ mode \in ToolsModes =>
                parsed.err = IF completion.finish = "length"
                             THEN "IncompleteOutputException" ELSE "AssertionError"
           /\ mode = "ANTHROPIC_TOOLS" =>
                parsed.err = IF completion.shape = "message"
                                /\ completion.finish = "max_tokens"
                             THEN "IncompleteOutputException" ELSE "ValidationError"

\* C2 witness: a TOOLS response with two invocations of a foreign name and an
\* unusable payload has been refused with AssertionError.
C2_Witness ==
    /\ parsed.tag = "error" /\ parsed.err = "AssertionError"
    /\ mode = "TOOLS" /\ completion.ncalls = 2
    /\ ~completion.nameOk /\ completion.payload = "invalid"

\* C3 (as stated): for a mode outside the dispatch table from_response fails
\* with a ValueError naming the mode, whatever the raw response is.
C3_UnknownModeIsValueError ==
    (parsed.tag # "pending" /\ mode \notin DispatchedModes)
        => (parsed.tag = "error" /\ parsed.err = "ValueError" /\ parsed.names = mode)

\* The call got as far as handing the payload to a validation routine: it
\* ended with an instance or with the error of that routine (not with the
\* count check of parse_anthropic_tools, which also follows the extraction).
ReachedValidation ==
    /\ parsed.read
    /\ ~(mode = "ANTHROPIC_TOOLS" /\ completion.ncalls # 1)

\* C11 (as stated): in every mode the strict argument selects the validation
\* regime.  With strict=True the payload is validated strictly: one that needs
\* coercion or holds a raw control character is rejected.  Otherwise it is
\* parsed leniently: raw control characters are tolerated and coercion is
\* performed.  No mode ignores or overrides the caller's strict value.
\* A mapping payload has no text of its own, so a control character in one of
\* its string values counts as an ordinary value under both regimes.
C11_StrictSelectsRegime ==
    ReachedValidation =>
        LET p == IF mode \in MappingPayloadModes
                 THEN json_dumps(completion.payload)
                 ELSE completion.payload
        IN  parsed.tag = "instance"
                <=> IF strict = "True"
                    THEN p = "valid"
                    ELSE p \in {"valid", "coercible", "ctrl"}

-----------------------------------------------------------------------------
(* The schema deriver's specification: one openai_schema_helper call. *)

InitSchema ==
    /\ ty \in Types(MaxDepth)
    /\ derived = NotDerived
    /\ IdleParse
    /\ IdleValidate

DeriveSchema ==
    /\ derived.tag = "pending"
    /\ derived' = openai_schema_helper(ty)
    /\ UNCHANGED <<ty, parseVars, validateVars>>

NextSchema == DeriveSchema

SpecSchema == InitSchema /\ [][NextSchema]_vars

\* C8 (as stated): a type that is, or holds, an unsupported shape makes
\* openai_schema_helper fail with the unsupported-type ValueError naming an
\* offending type; it is never returned and no other error is raised.
C8_UnsupportedIsValueError ==
    (derived.tag # "pending" /\ Unsupported(ty) # {})
        => /\ derived.tag = "error"
           /\ derived.err = "ValueError"
           /\ derived.names \in Unsupported(ty)

-----------------------------------------------------------------------------
(* The orchestrator's specification: model_async_validate called Calls times *)
(* on one instance graph, the validator bodies interleaving freely.          *)

\* The graphs of n instances: every instance after the first hangs off an
\* earlier one, and "child" holds at most one instance.  At most one
\* instance of a graph is Special (a validator that hangs, one that raises a
\* BaseException, or a misconfigured field validator).
RECURSIVE Graphs(_)
Graphs(n) ==
    IF n = 1
    THEN { << [parent |-> 0, attr |-> "root", cls |-> k.cls, x |-> k.x, y |-> k.y] >> :
             k \in NodeKinds }
    ELSE { Append(g, [parent |-> p, attr |-> a, cls |-> k.cls, x |-> k.x, y |-> k.y]) :
             g \in Graphs(n - 1), p \in 1..(n - 1),
             a \in {AttrNames[i] : i \in DOMAIN AttrNames}, k \in NodeKinds }

WellShaped(g) ==
    /\ \A m, n \in DOMAIN g :
          (m # n /\ g[m].parent = g[n].parent /\ g[m].attr = g[n].attr)
              => IsCollection(g[m].attr)
    /\ \A m, n \in DOMAIN g : (Special(g[m]) /\ Special(g[n])) => m = n

\* The validator runs a graph calls for: one per model validator and one per
\* field of each field validator, of every instance.
ExpectedRuns(g) ==
    UNION { UNION { LET v == Members(g[n].cls)[i]
                    IN  IF v.scope = "model" THEN {<<n, "model", "self">>}
                        ELSE {<<n, "field", v.fields[j]>> : j \in DOMAIN v.fields} :
                    i \in DOMAIN Members(g[n].cls) } :
            n \in DOMAIN g }

InitValidate ==
    /\ inst \in {g \in Graphs(MaxNodes) :
                    WellShaped(g) /\ Cardinality(ExpectedRuns(g)) <= MaxTasks}
    /\ context \in Contexts
    /\ call = 1
    /\ pc = "start"
    /\ coros = <<>>
    /\ task = <<>>
    /\ slot = <<>>
    /\ runs = <<>>
    /\ returned = [c \in 1..Calls |-> NoCall]
    /\ IdleParse
    /\ IdleSchema

\* model_async_validate up to its gather: discovery runs to its end (it has
\* no suspension point), then every coroutine is handed to gather.
Discover ==
    /\ pc = "start"
    /\ LET r == get_model_coroutines(inst, 1, context, <<>>)
       IN  IF r.err
           THEN /\ pc' = "raised"
                /\ returned' = [returned EXCEPT ![call] = RaisedError("ValueError")]
                /\ coros' = <<>>
           ELSE /\ pc' = "gather"
                /\ returned' = returned
                /\ coros' = r.coros
    /\ task' = [i \in DOMAIN coros' |-> "created"]
    /\ slot' = [i \in DOMAIN coros' |-> "NoValue"]
    /\ runs' = [i \in DOMAIN coros' |-> 0]
    /\ UNCHANGED <<inst, context, call, parseVars, schemaVars>>

\* A task gets its first step: the validator body starts.
Start(i) ==
    /\ CanStart(i)
    /\ task' = [task EXCEPT ![i] = "running"]
    /\ runs' = [runs EXCEPT ![i] = @ + 1]
    /\ UNCHANGED <<inst, context, call, pc, coros, slot, returned, parseVars, schemaVars>>

\* The coroutine i runs once its validator body has ended.
Outcome(i) ==
    IF coros[i].scope = "field"
    THEN execute_field_validator(coros[i])
    ELSE execute_model_validator(coros[i])

\* A validator body ends and its coroutine with it: the result is kept at the
\* coroutine's position, or the task is left failed with the error that went
\* through the coroutine; model_async_validate is still waiting in its gather.
Finish(i) ==
    /\ pc \in {"gather", "raised"}
    /\ i \in DOMAIN task
    /\ task[i] = "running"
    /\ Body(coros[i].value, coros[i].ctx) # "hang"
    /\ LET r == Outcome(i)
       IN  IF r.status = "returned"
           THEN /\ task' = [task EXCEPT ![i] = "done"]
                /\ slot' = StoreResult(slot, i, r.value)
           ELSE /\ task' = [task EXCEPT ![i] = "failed"]
                /\ slot' = slot
    /\ UNCHANGED <<inst, context, call, pc, coros, runs, returned, parseVars, schemaVars>>

\* The error of a failed task reaches model_async_validate: gather hands it
\* to its awaiter in a later iteration of the event loop, by when every task
\* has had its first step; the tasks still running are left to run.
GatherRaises ==
    /\ pc = "gather"
    /\ \A j \in DOMAIN task : task[j] # "created"
    /\ \E i \in DOMAIN task :
          /\ task[i] = "failed"
          /\ returned' = [returned EXCEPT ![call] = RaisedError(Outcome(i).value)]
    /\ pc' = "raised"
    /\ UNCHANGED <<inst, context, call, coros, task, slot, runs, parseVars, schemaVars>>

\* gather completes once every task is done; the failures are returned.
Return ==
    /\ pc = "gather"
    /\ \A i \in DOMAIN task : task[i] = "done"
    /\ pc' = "returned"
    /\ returned' = [returned EXCEPT ![call] = ReturnedList(Failures(slot))]
    /\ UNCHANGED <<inst, context, call, coros, task, slot, runs, parseVars, schemaVars>>

\* The caller validates the same instance with the same context again.
CallAgain ==
    /\ pc = "returned"
    /\ call < Calls
    /\ call' = call + 1
    /\ pc' = "start"
    /\ coros' = <<>>
    /\ task' = <<>>
    /\ slot' = <<>>
    /\ runs' = <<>>
    /\ UNCHANGED <<inst, context, returned, parseVars, schemaVars>>

Next ==
    \/ Discover
    \/ \E i \in 1..(MaxTasks + 1) : Start(i)
    \/ \E i \in 1..(MaxTasks + 1) : Finish(i)
    \/ GatherRaises
    \/ Return
    \/ CallAgain

Spec == InitValidate /\ [][Next]_vars

-----------------------------------------------------------------------------
(* Claims about the orchestrator *)

\* What the validator run <<n, sc, f>> of graph g does under context c.
RunBody(g, c, run) ==
    LET n == run[1]
        v == CHOOSE m \in {Members(g[n].cls)[i] : i \in DOMAIN Members(g[n].cls)} :
                m.scope = run[2]
    IN  Body(IF run[3] = "y" THEN g[n].y ELSE g[n].x, IF v.ctx THEN c ELSE "None")

RunsThat(g, c, outcome) == {run \in ExpectedRuns(g) : RunBody(g, c, run) = outcome}

\* Some field-scoped validator of the graph names a field its instance lacks.
Misconfigured(g) ==
    \E n \in DOMAIN g :
        \E i \in DOMAIN Members(g[n].cls) :
            LET v == Members(g[n].cls)[i]
            IN  /\ v.scope = "field"
                /\ \E j \in DOMAIN v.fields : v.fields[j] \notin Keys(g, n)

\* The attribute names leading from the first instance to instance n.
RECURSIVE PathTo(_, _)
PathTo(g, n) ==
    IF g[n].parent = 0 THEN <<>>
    ELSE Append(PathTo(g, g[n].parent), g[n].attr)

RunOf(co) == <<co.node, co.scope, co.field>>

\* C4 (as stated): model_async_validate never raises.
C4_NeverRaises == \A c \in 1..Calls : returned[c].tag # "raised"

\* C4 (amended): every Exception a validator body raises ends up as an element
\* of the returned list, one per raising validator; the only errors that leave
\* model_async_validate are the ValueError of discovery, when a field-scoped
\* validator names a field its instance lacks, and a BaseException that is
\* no Exception (asyncio.CancelledError) raised by a validator body.
C4_OnlyConfigurationAndBaseErrorsEscape ==
    \A c \in 1..Calls :
        /\ returned[c].tag = "raised" =>
              \/ returned[c].err = "ValueError" /\ Misconfigured(inst)
              \/ /\ returned[c].err = "BaseException"
                 /\ RunsThat(inst, context, "base") # {}
        /\ returned[c].tag = "list" =>
              Len(returned[c].items) = Cardinality(RunsThat(inst, context, "raise"))

\* C4 witness: a call has returned a list holding the errors of two validators.
C4_Witness ==
    /\ pc = "returned"
    /\ returned[call].tag = "list"
    /\ Len(returned[call].items) >= 2

\* C5: in a call that returns, every validator of every instance of the graph
\* (each field of each field-scoped validator, each model validator, nested
\* instances and items of collections included) has run exactly once, whether
\* or not others failed, and the list holds exactly one failure per run that
\* raised; no validator body ever starts twice.
C5_EveryValidatorRunsOnce ==
    /\ \A i \in DOMAIN runs : runs[i] <= 1
    /\ pc = "returned" =>
          /\ {RunOf(coros[i]) : i \in DOMAIN coros} = ExpectedRuns(inst)
          /\ Len(coros) = Cardinality(ExpectedRuns(inst))
          /\ \A i \in DOMAIN coros : runs[i] = 1
          /\ Len(returned[call].items)
                = Cardinality({i \in DOMAIN coros :
                                  Body(coros[i].value, coros[i].ctx) = "raise"})

\* C5 witness: a call has returned after a failing validator and a passing
\* validator of two different instances, one of them an item of a collection.
C5_Witness ==
    /\ pc = "returned"
    /\ \E i, j \in DOMAIN coros :
          /\ coros[i].node # coros[j].node
          /\ Body(coros[i].value, coros[i].ctx) = "raise"
          /\ Body(coros[j].value, coros[j].ctx) = "ok"
          /\ IsCollection(inst[coros[i].node].attr)

\* The failure a validator coroutine must report: the text of its error and
\* the path from the first instance to its own, then the field if it has one.
ExpectedFailure(co) ==
    FailureText(ErrorText(co.value, co.ctx),
                PathTo(inst, co.node)
                    \o (IF co.scope = "field" THEN <<co.field>> ELSE <<>>))

\* C6: the path a failure reports is the attribute names from the first
\* instance to the instance owning the validator (an item of a collection
\* adding only the collection's attribute name), followed by the field name
\* for a field-scoped validator and by nothing for a model validator; the
\* returned list holds exactly these failures.
C6_FailurePath ==
    pc = "returned" =>
        /\ \A i \in DOMAIN coros :
              slot[i] = IF Body(coros[i].value, coros[i].ctx) = "raise"
                        THEN ExpectedFailure(coros[i]) ELSE "None"
        /\ \A k \in DOMAIN returned[call].items :
              \E i \in DOMAIN coros :
                  /\ Body(coros[i].value, coros[i].ctx) = "raise"
                  /\ returned[call].items[k] = ExpectedFailure(coros[i])
        /\ \A i \in DOMAIN coros :
              Body(coros[i].value, coros[i].ctx) = "raise" =>
                  \E k \in DOMAIN returned[call].items :
                      returned[call].items[k] = ExpectedFailure(coros[i])

\* C6 witness: the only validator of the graph, a failing field validator of
\* an instance two levels down and inside a collection, has produced the one
\* failure of the returned list.
C6_Witness ==
    /\ pc = "returned"
    /\ Len(coros) = 1
    /\ Len(PathTo(inst, coros[1].node)) = 2
    /\ IsCollection(inst[coros[1].node].attr)
    /\ returned[call].items
          = << "Exception of bad value encountered at child.items.x" >>

\* C7: with pure validators the returned list is the same whatever order the
\* validator bodies complete in, and the same on every call made with the
\* same instance and context.
C7_SameListEveryCall ==
    \A c, d \in 1..Calls :
        (returned[c].tag = "list" /\ returned[d].tag = "list")
            => returned[c].items = returned[d].items

\* C7 witness: two calls have returned, each with at least two failures.
C7_Witness ==
    /\ returned[1].tag = "list"
    /\ returned[2].tag = "list"
    /\ Len(returned[2].items) >= 2

\* C9: when a field-scoped validator names a field its instance lacks, the
\* call fails with ValueError during discovery: the error is raised to the
\* caller, no list is returned, and no validator body of any instance has
\* started.
C9_ConfigurationErrorAtDiscovery ==
    (pc # "start" /\ Misconfigured(inst)) =>
        /\ pc = "raised"
        /\ returned[call] = RaisedError("ValueError")
        /\ DOMAIN coros = {}
        /\ \A i \in DOMAIN runs : runs[i] = 0
        /\ \A c \in 1..Calls : returned[c].tag # "list"

\* C9 witness: discovery has raised on a nested instance after collecting the
\* validator of the first instance.
C9_Witness ==
    /\ pc = "raised"
    /\ returned[call].err = "ValueError"
    /\ inst[1].cls = "Field"
    /\ \E n \in DOMAIN inst : n > 1 /\ inst[n].cls = "Both" /\ inst[n].y = "absent"

\* C10: no validator body starts before discovery has collected the
\* validators of every level; the collected validators are then in flight
\* together, each free to start without another having finished; the call
\* returns only after all of them completed, so that one validator that never
\* completes keeps the call from returning.
C10_OneJoinedWait ==
    /\ (\E i \in DOMAIN task : task[i] # "created") =>
          {RunOf(coros[i]) : i \in DOMAIN coros} = ExpectedRuns(inst)
    /\ pc = "gather" =>
          \A i \in DOMAIN task :
              (task[i] = "created" /\ \A j \in 1..(i - 1) : task[j] # "created")
                  => ENABLED Start(i)
    /\ pc = "returned" => \A i \in DOMAIN task : task[i] = "done"
    /\ (\E c \in 1..Calls : returned[c].tag = "list") =>
          RunsThat(inst, context, "hang") = {}

\* C10 witness: validators of two different levels are running at the same
\* time, one of them never to complete, and the call has not returned.
C10_Witness ==
    /\ pc = "gather"
    /\ \E i, j \in DOMAIN task :
          /\ task[i] = "running" /\ task[j] = "running"
          /\ Len(PathTo(inst, coros[i].node)) # Len(PathTo(inst, coros[j].node))
          /\ Body(coros[i].value, coros[i].ctx) = "hang"
          /\ \A k \in DOMAIN task : k \notin {i, j} => task[k] = "done"

====
